---- MODULE Spec2Model ----
(***************************************************************************)
(* Fire-risk analysis pipeline of src/main.py: province selection from a   *)
(* map click, dispatch of six Earth Engine export jobs, the fixed wait,    *)
(* and retrieval of the Drive folder's content; and, per pixel, the signal *)
(* fallbacks, the normalisation and the weighted composite.                *)
(*                                                                         *)
(* Units.  Degrees are integers in units of 1e-4 degree (the PROVINCES     *)
(* table has four decimals).  Raster values are exact rationals <<n, d>>   *)
(* in lowest terms, d > 0: floating-point rounding is not modelled.        *)
(***************************************************************************)
EXTENDS Integers, Sequences, FiniteSets, TLC

VARIABLES
    \* ---- the local process
    argv,        \* sys.argv[1:], numbers already parsed: <<>> or <<lon, lat>>
    event,       \* the click on the map, on_map_click's argument: [x, y] or NoEvent
    pc,          \* position of the process
    longitude,   \* arguments of run_fire_risk_analysis
    latitude,
    nearest,     \* on_map_click's local: index into PROVINCES, 0 for None
    started,     \* number of export_layer calls completed in this run
    remaining,   \* loop variable of the countdown (next value), 0 when exhausted
    slept,       \* history: number of time.sleep(1) calls made
    folder_id,   \* download_exports_from_drive's locals
    file_list,
    idx,         \* position of the for loop over file_list
    fetched,     \* history: ids passed to GetContentFile, in order
    dirExists,   \* local filesystem: the "downloads" directory
    localFiles,  \* local filesystem: set of [title, content] in downloads/
    \* ---- the remote services
    tasks,       \* Earth Engine task list, in submission order
    root,        \* Drive root: sequence of folder items [id, title, files]
    recent,      \* index in root of the most recently modified export folder, 0 if none
    \* ---- run_fire_risk_analysis's images, each at one sample pixel of the region
    s2_median,   \* reduced collections: band name -> value, no band when no image matched
    lstImage,
    precipImage,
    terrain,     \* ee.Algorithms.Terrain(dem): [slope, aspect] in degrees
    ndvi, lst, precip, slope, aspect,
    ndvi_norm, lst_norm, slope_norm, aspect_south, precip_norm,
    fireRisk

procVars  == <<argv, event, pc, longitude, latitude, nearest, started, remaining, slept>>
dlVars    == <<folder_id, file_list, idx, fetched, dirExists, localFiles>>
cloudVars == <<tasks, root, recent>>
inputVars == <<s2_median, lstImage, precipImage, terrain>>
imageVars == <<ndvi, lst, precip, slope, aspect,
               ndvi_norm, lst_norm, slope_norm, aspect_south, precip_norm, fireRisk>>
vars      == <<procVars, dlVars, cloudVars, inputVars, imageVars>>

NoEvent == [x |-> -1, y |-> -1]

----------------------------------------------------------------------------
(* Bounds of the model *)

MaxFolders == 2    \* folders named like the export folder that Drive may hold at start
MaxStale   == 1    \* files of earlier runs in the first such folder at start
MaxFailed  == 1    \* export tasks that fail in one session
GridX      == 8    \* clicks are taken on a (GridX + 1) x (GridY + 1) grid of the canvas
GridY      == 10
MaxBand    == 2    \* largest B4 / B8 value of a pixel
MaxLstStep == 4    \* LST means: 7.5 C + 12.5 C * k, k = 0..MaxLstStep
MaxPrecipStep == 3 \* precipitation sums: 75 mm * k
MaxSlopeStep  == 3 \* slopes: 30 degrees * k

----------------------------------------------------------------------------
(* Constants of the program *)

BufferMeters == 30000
ExportScale  == 30
WaitSeconds  == 60
MIN_LAT == 25
MAX_LAT == 39
MIN_LON == 44
MAX_LON == 63
WIDTH   == 800
HEIGHT  == 1000

FolderName  == "EarthEnginefatemeh"
MaxPixels   == [mantissa |-> 1, exponent |-> 13]      \* 1e13
DownloadDir == "downloads"

\* (name, lat, lon), degrees in units of 1e-4
PROVINCES ==
    << <<"Tehran", 356892, 513890>>,
       <<"Isfahan", 326519, 516680>>,
       <<"Fars", 295893, 525311>>,
       <<"Razavi Khorasan", 363000, 596000>>,
       <<"Mazandaran", 365525, 530762>>,
       <<"Kurdistan", 347800, 465300>>,
       <<"Khuzestan", 319391, 486692>>,
       <<"East Azerbaijan", 380700, 462960>>,
       <<"West Azerbaijan", 375300, 450000>>,
       <<"Ardabil", 382500, 483000>>,
       <<"Zanjan", 366764, 484963>>,
       <<"Qazvin", 362700, 500000>>,
       <<"Gilan", 372800, 495832>>,
       <<"Golestan", 368400, 544300>>,
       <<"Semnan", 355700, 534000>>,
       <<"Alborz", 358400, 509400>>,
       <<"Qom", 346400, 508800>>,
       <<"Markazi", 341000, 497000>>,
       <<"Hamedan", 348000, 485000>>,
       <<"Ilam", 336300, 464200>>,
       <<"Lorestan", 335800, 483500>>,
       <<"Chaharmahal and Bakhtiari", 323200, 508600>>,
       <<"Kohgiluyeh and Boyer-Ahmad", 306500, 516000>>,
       <<"Bushehr", 289200, 508300>>,
       <<"Hormozgan", 272000, 563700>>,
       <<"Sistan and Baluchestan", 294900, 608500>>,
       <<"Kerman", 302839, 570834>>,
       <<"Yazd", 318974, 543569>>,
       <<"South Khorasan", 328700, 592200>>,
       <<"North Khorasan", 374700, 573300>> >>

\* The six export_layer calls, in order: (local variable holding the image, name)
LAYERS ==
    << <<"ndvi", "NDVI">>,
       <<"lst", "LST">>,
       <<"precip", "Precip">>,
       <<"slope", "Slope">>,
       <<"aspect_south", "Aspect_Score">>,
       <<"fireRisk", "Fire_Risk">> >>

----------------------------------------------------------------------------
(* f-string formatting of a float: Python's repr, for a non-negative value *)
(* with at most four decimals (v in units of 1e-4)                         *)

FracDigits(f) ==
    LET d1 == f \div 1000
        d2 == (f \div 100) % 10
        d3 == (f \div 10) % 10
        d4 == f % 10
    IN  IF d4 # 0 THEN ToString(d1) \o ToString(d2) \o ToString(d3) \o ToString(d4)
        ELSE IF d3 # 0 THEN ToString(d1) \o ToString(d2) \o ToString(d3)
        ELSE IF d2 # 0 THEN ToString(d1) \o ToString(d2)
        ELSE ToString(d1)

FloatRepr(v) == ToString(v \div 10000) \o "." \o FracDigits(v % 10000)

\* f'{name}_{latitude}_{longitude}'
LayerName(name, lat, lon) == name \o "_" \o FloatRepr(lat) \o "_" \o FloatRepr(lon)

----------------------------------------------------------------------------
(* Geometry of the map: pixel_to_geo in units of 1/20000 degree, in which   *)
(* lon = 44 + 19x/800 and lat = 39 - 14y/1000 are integers for integer x, y *)

PixelLat2(y) == 2 * 10000 * MAX_LAT - (y * (2 * 10000 * (MAX_LAT - MIN_LAT))) \div HEIGHT
PixelLon2(x) == (x * (2 * 10000 * (MAX_LON - MIN_LON))) \div WIDTH + 2 * 10000 * MIN_LON

pixel_to_geo(x, y) == <<PixelLat2(y), PixelLon2(x)>>

\* geo_to_pixel(lat, lon) for degrees in units of 1e-4; int() truncates
geo_to_pixel(lat, lon) ==
    << ((lon - 10000 * MIN_LON) * WIDTH) \div (10000 * (MAX_LON - MIN_LON)),
       ((10000 * MAX_LAT - lat) * HEIGHT) \div (10000 * (MAX_LAT - MIN_LAT)) >>

Abs(n) == IF n < 0 THEN -n ELSE n

\* d*d for 0 <= d < 2^20 as <<M, L>> = M * 10^6 + L, 0 <= L < 10^6 (no 32-bit overflow)
Square(d) ==
    LET h == d \div 1000
        l == d % 1000
        low == 2 * h * l * 1000 + l * l
    IN  <<h * h + low \div 1000000, low % 1000000>>

Plus(a, b) == <<a[1] + b[1] + (a[2] + b[2]) \div 1000000, (a[2] + b[2]) % 1000000>>

Less(a, b) == a[1] < b[1] \/ (a[1] = b[1] /\ a[2] < b[2])

\* math.hypot(lat - plat, lon - plon), squared; hypot is monotone in it
Dist2(geo, i) ==
    Plus(Square(Abs(geo[1] - 2 * PROVINCES[i][2])),
         Square(Abs(geo[2] - 2 * PROVINCES[i][3])))

\* the loop of on_map_click from entry i on: best = 0 is (None, inf)
RECURSIVE NearestFrom(_, _, _)
NearestFrom(i, best, geo) ==
    IF i > Len(PROVINCES) THEN best
    ELSE IF best = 0 \/ Less(Dist2(geo, i), Dist2(geo, best))
         THEN NearestFrom(i + 1, i, geo)
         ELSE NearestFrom(i + 1, best, geo)

Nearest(geo) == NearestFrom(1, 0, geo)

----------------------------------------------------------------------------
(* Earth Engine export tasks and Drive *)

Area(lon, lat) == [op |-> "buffer", point |-> <<lon, lat>>, distance |-> BufferMeters]

Bounds(area) == [op |-> "bounds", of |-> area]

\* ee.batch.Export.image.toDrive(...) followed by task.start()
ExportTask(image, name, lon, lat) ==
    [ image          |-> image,
      description    |-> name,
      folder         |-> FolderName,
      fileNamePrefix |-> name,
      region         |-> Bounds(Area(lon, lat)),
      scale          |-> ExportScale,
      maxPixels      |-> MaxPixels,
      state          |-> "ACTIVE" ]

\* Drive lists a folder's items in one fixed order: here by id
RECURSIVE Listing(_)
Listing(S) ==
    IF S = {} THEN <<>>
    ELSE LET m == CHOOSE f \in S : \A g \in S : f.id <= g.id
         IN  <<m>> \o Listing(S \ {m})

\* indices of the root items matching title = folder_name, a folder, not trashed
MatchingFolders(r, name) == { i \in 1..Len(r) : r[i].title = name }

RECURSIVE SelectSeq2(_, _)
SelectSeq2(r, name) ==
    IF r = <<>> THEN <<>>
    ELSE IF Head(r).title = name THEN <<Head(r)>> \o SelectSeq2(Tail(r), name)
         ELSE SelectSeq2(Tail(r), name)

\* drive.ListFile({'q': "title='...' and mimeType=folder and trashed=false"}).GetList()
ListFolders(r, name) == SelectSeq2(r, name)

\* variant: only the files the tasks of this run exported
ListChildren_ThisRunOnly(r, id) ==
    LET hit == { i \in 1..Len(r) : r[i].id = id }
    IN  IF hit = {} THEN <<>>
        ELSE Listing({ f \in r[CHOOSE i \in hit : TRUE].files : f.id >= 1 })

\* drive.ListFile({'q': "'id' in parents and trashed=false"}).GetList()
ListChildren(r, id) ==
    LET hit == { i \in 1..Len(r) : r[i].id = id }
    IN  IF hit = {} THEN <<>> ELSE Listing(r[CHOOSE i \in hit : TRUE].files)

\* file.GetContentFile(os.path.join(download_path, title)): create or overwrite
WriteLocal(files, title, content) ==
    { f \in files : f.title # title } \cup { [title |-> title, content |-> content] }

----------------------------------------------------------------------------
(* Exact rational arithmetic for pixel values *)

RECURSIVE GCD(_, _)
GCD(a, b) == IF b = 0 THEN a ELSE GCD(b, a % b)

\* n/d in lowest terms with a positive denominator (d # 0)
Rat(n, d) ==
    LET g == GCD(Abs(n), Abs(d))
        sgn == IF d < 0 THEN -1 ELSE 1
    IN  <<(sgn * n) \div g, (sgn * d) \div g>>

RInt(k) == <<k, 1>>
RAdd(a, b) == Rat(a[1] * b[2] + b[1] * a[2], a[2] * b[2])
RSub(a, b) == Rat(a[1] * b[2] - b[1] * a[2], a[2] * b[2])
RMul(a, b) == Rat(a[1] * b[1], a[2] * b[2])
RDiv(a, b) == Rat(a[1] * b[2], a[2] * b[1])
RLe(a, b)  == a[1] * b[2] <= b[1] * a[2]
RMin(a, b) == IF RLe(a, b) THEN a ELSE b
RMax(a, b) == IF RLe(a, b) THEN b ELSE a

----------------------------------------------------------------------------
(* Earth Engine image operations, at one pixel.  An image with one band is *)
(* [band, value]; a reduced collection maps its band names to values and   *)
(* has none when no image matched the filters.                             *)

NoImage == [band |-> "", value |-> <<0, 1>>]

\* the reduction of an empty collection: an image without bands
NoBands == [b \in {} |-> 0]

BandNames(img) == DOMAIN img

Constant(k) == [band |-> "constant", value |-> RInt(k)]

Rename(img, name) == [img EXCEPT !.band = name]

\* image.normalizedDifference([b1, b2]): (b1 - b2) / (b1 + b2), band "nd"
NormalizedDifference(img, b1, b2) ==
    [band |-> "nd", value |-> Rat(img[b1] - img[b2], img[b1] + img[b2])]

\* the single band of a reduced collection as an image
Band(img, b) == [band |-> b, value |-> img[b]]

Multiply(img, r) == [img EXCEPT !.value = RMul(@, r)]
Subtract(img, r) == [img EXCEPT !.value = RSub(@, r)]
Add(a, b)        == [a EXCEPT !.value = RAdd(@, b.value)]

\* image.unitScale(low, high): (v - low) / (high - low)
UnitScale(img, low, high) ==
    [img EXCEPT !.value = RDiv(RSub(@, RInt(low)), RInt(high - low))]

\* image.clamp(low, high)
Clamp(img, low, high) ==
    [img EXCEPT !.value = RMax(RInt(low), RMin(RInt(high), @))]

\* ee.Algorithms.If(condition, trueCase, falseCase)
If(cond, a, b) == IF cond THEN a ELSE b

\* cos(deg degrees) where it is rational
CosDeg(deg) ==
    LET a == Abs(deg) % 360
    IN  CASE a = 0 -> <<1, 1>>
          [] a \in {60, 300} -> <<1, 2>>
          [] a \in {90, 270} -> <<0, 1>>
          [] a \in {120, 240} -> <<-1, 2>>
          [] a = 180 -> <<-1, 1>>

\* aspect.expression("cos((aspect - 180) * 3.1416 / 180)"): 3.1416 / 180 taken
\* as pi / 180, which moves the value by less than 1e-5
AspectExpression(img) ==
    [band |-> img.band, value |-> CosDeg(img.value[1] - 180)]

\* lines 36-42
FetchNdvi(median) ==
    If(BandNames(median) # {},
       Rename(NormalizedDifference(median, "B8", "B4"), "NDVI"),
       Rename(Constant(0), "NDVI"))

\* variant: the default goes through the unit conversion too
FetchLst_ConvertedDefault(mean) ==
    Rename(Subtract(Multiply(If(BandNames(mean) # {}, Band(mean, "LST_Day_1km"), Constant(25)),
                             <<1, 50>>), <<5463, 20>>), "LST")

\* lines 50-56: 0.02 = 1/50, 273.15 = 5463/20
FetchLst(mean) ==
    If(BandNames(mean) # {},
       Rename(Subtract(Multiply(Band(mean, "LST_Day_1km"), <<1, 50>>), <<5463, 20>>), "LST"),
       Rename(Constant(25), "LST"))

\* lines 63-69
FetchPrecip(sum) ==
    If(BandNames(sum) # {},
       Rename(Band(sum, "precipitation"), "Precip"),
       Rename(Constant(10), "Precip"))

\* lines 74-75
SelectSlope(t)  == Rename([band |-> "slope", value |-> RInt(t.slope)], "Slope")
SelectAspect(t) == Rename([band |-> "aspect", value |-> RInt(t.aspect)], "Aspect")

\* variants: no clamp
NormLst_NoClamp(img)   == UnitScale(img, 20, 45)
NormSlope_NoClamp(img) == UnitScale(img, 0, 60)

\* lines 78-84
NormNdvi(img)   == Clamp(UnitScale(img, 0, 1), 0, 1)
NormLst(img)    == Clamp(UnitScale(img, 20, 45), 0, 1)
NormSlope(img)  == Clamp(UnitScale(img, 0, 60), 0, 1)
AspectSouth(img) == Rename(AspectExpression(img), "Aspect_Score")
NormPrecip(img) == Clamp(UnitScale(img, 0, 150), 0, 1)

\* variant: precipitation weighted 0.1
FireRiskIndex_PrecipPlus(l, n, s, a, p) ==
    Rename(
      Add(Add(Add(Add(Multiply(l, <<3, 10>>),
                      Multiply(n, <<-3, 10>>)),
                  Multiply(s, <<3, 20>>)),
              Multiply(a, <<3, 20>>)),
          Multiply(p, <<1, 10>>)),
      "Fire_Risk")

\* lines 87-92: 0.3, -0.3, 0.15, 0.15, -0.1
FireRiskIndex(l, n, s, a, p) ==
    Rename(
      Add(Add(Add(Add(Multiply(l, <<3, 10>>),
                      Multiply(n, <<-3, 10>>)),
                  Multiply(s, <<3, 20>>)),
              Multiply(a, <<3, 20>>)),
          Multiply(p, <<-1, 10>>)),
      "Fire_Risk")

\* the image a local variable of run_fire_risk_analysis holds
ImageOf(name) ==
    CASE name = "ndvi" -> ndvi
      [] name = "lst" -> lst
      [] name = "precip" -> precip
      [] name = "slope" -> slope
      [] name = "aspect_south" -> aspect_south
      [] name = "fireRisk" -> fireRisk

----------------------------------------------------------------------------
(* Initial states: the process before __main__ runs, Drive as earlier runs  *)
(* left it, the local directory present or not                             *)

\* command lines with two numeric arguments: <<lon, lat>>
CliArgs == { <<525000, 362500>> }

\* clicks of a session under Spec: the pixel of Tehran's label
SessionClicks == { [x |-> 311, y |-> 236] }

\* a file an earlier run exported: the first has the title of this session's
\* Tehran NDVI export, the others are exports for Isfahan
StaleFile(k) ==
    [ id    |-> 0 - k,
      title |-> (IF k = 1 THEN LayerName("NDVI", 356892, 513890)
                 ELSE LayerName(LAYERS[((k - 1) % 6) + 1][2], 326519, 516680)) \o ".tif" ]

OtherFolder == [id |-> 1001, title |-> "Photos", files |-> {[id |-> -100, title |-> "holiday.jpg"]}]

ExportFolder(i, k) == [id |-> 1001 + i, title |-> FolderName, files |-> {StaleFile(j) : j \in 1..k}]

\* Drive root with n export folders, k stale files in the first of them.  The
\* most recently modified export folder is the last one: with it first, the
\* others are neither read nor written, as if they were not there
DriveRoot(n, k) ==
    <<OtherFolder>> \o [i \in 1..n |-> ExportFolder(i, IF i = 1 THEN k ELSE 0)]

InitProcess ==
    /\ pc = "main"
    /\ longitude = 0
    /\ latitude = 0
    /\ nearest = 0
    /\ started = 0
    /\ remaining = 0
    /\ slept = 0
    /\ folder_id = 0
    /\ file_list = <<>>
    /\ idx = 0
    /\ fetched = <<>>

InitLocalDir ==
    /\ dirExists = (\E i \in 1..Len(root) : \E f \in root[i].files : f.id = StaleFile(1).id)
    /\ localFiles = IF dirExists
                    THEN {[title |-> StaleFile(1).title, content |-> -1000]}
                    ELSE {}

InitCloud ==
    /\ tasks = <<>>
    /\ \E n \in 0..MaxFolders, k \in 0..MaxStale :
          /\ n = 0 => k = 0
          /\ root = DriveRoot(n, k)
          /\ recent = IF n = 0 THEN 0 ELSE n + 1

\* one pixel of a region where every collection has images
SamplePixel ==
    /\ s2_median = [B4 |-> 1, B8 |-> 2]
    /\ lstImage = [LST_Day_1km |-> <<30565, 2>>]
    /\ precipImage = [precipitation |-> <<75, 1>>]
    /\ terrain = [slope |-> 30, aspect |-> 120]

InitImages ==
    /\ ndvi = NoImage /\ lst = NoImage /\ precip = NoImage
    /\ slope = NoImage /\ aspect = NoImage
    /\ ndvi_norm = NoImage /\ lst_norm = NoImage /\ slope_norm = NoImage
    /\ aspect_south = NoImage /\ precip_norm = NoImage
    /\ fireRisk = NoImage

Init ==
    /\ argv \in {<<>>} \cup CliArgs
    /\ event \in IF argv = <<>> THEN SessionClicks ELSE {NoEvent}
    /\ InitProcess
    /\ InitCloud
    /\ InitLocalDir
    /\ SamplePixel
    /\ InitImages

----------------------------------------------------------------------------
(* The process *)

\* __main__ with two arguments: lon = float(argv[1]); lat = float(argv[2]);
\* run_fire_risk_analysis(lon, lat)
MainCli ==
    /\ pc = "main"
    /\ Len(argv) = 2
    /\ longitude' = argv[1]
    /\ latitude' = argv[2]
    /\ pc' = "fetch"
    /\ UNCHANGED <<argv, event, nearest, started, remaining, slept, dlVars, cloudVars>>
    /\ UNCHANGED <<inputVars, imageVars>>

\* __main__ otherwise: create_gui() binds on_map_click and enters the main loop
MainGui ==
    /\ pc = "main"
    /\ Len(argv) # 2
    /\ pc' = "mainloop"
    /\ UNCHANGED <<argv, event, longitude, latitude, nearest, started, remaining, slept,
                   dlVars, cloudVars>>
    /\ UNCHANGED <<inputVars, imageVars>>

\* variant: the province's (lat, lon) passed in the table's order
RunArgs_LatFirst(n, geo) == <<PROVINCES[n][2], PROVINCES[n][3]>>

\* run_fire_risk_analysis(plon, plat): the (longitude, latitude) passed
RunArgs(n, geo) == <<PROVINCES[n][3], PROVINCES[n][2]>>

\* on_map_click up to the call of run_fire_risk_analysis
OnMapClick ==
    /\ pc = "mainloop"
    /\ event # NoEvent
    /\ LET geo == pixel_to_geo(event.x, event.y)
           n   == Nearest(geo)
       IN  /\ nearest' = n
           /\ IF n # 0
              THEN /\ longitude' = RunArgs(n, geo)[1]
                   /\ latitude' = RunArgs(n, geo)[2]
                   /\ pc' = "fetch"
              ELSE /\ pc' = "returned"
                   /\ UNCHANGED <<longitude, latitude>>
    /\ UNCHANGED <<argv, event, started, remaining, slept, dlVars, cloudVars>>
    /\ UNCHANGED <<inputVars, imageVars>>

\* run_fire_risk_analysis, lines 30-75: the five signals
FetchSignals ==
    /\ pc = "fetch"
    /\ ndvi' = FetchNdvi(s2_median)
    /\ lst' = FetchLst(lstImage)
    /\ precip' = FetchPrecip(precipImage)
    /\ slope' = SelectSlope(terrain)
    /\ aspect' = SelectAspect(terrain)
    /\ pc' = "normalize"
    /\ UNCHANGED <<argv, event, longitude, latitude, nearest, started, remaining, slept,
                   dlVars, cloudVars, inputVars>>
    /\ UNCHANGED <<ndvi_norm, lst_norm, slope_norm, aspect_south, precip_norm, fireRisk>>

\* run_fire_risk_analysis, lines 77-84
Normalize ==
    /\ pc = "normalize"
    /\ ndvi_norm' = NormNdvi(ndvi)
    /\ lst_norm' = NormLst(lst)
    /\ slope_norm' = NormSlope(slope)
    /\ aspect_south' = AspectSouth(aspect)
    /\ precip_norm' = NormPrecip(precip)
    /\ pc' = "composite"
    /\ UNCHANGED <<argv, event, longitude, latitude, nearest, started, remaining, slept,
                   dlVars, cloudVars, inputVars>>
    /\ UNCHANGED <<ndvi, lst, precip, slope, aspect, fireRisk>>

\* run_fire_risk_analysis, lines 86-92
Composite ==
    /\ pc = "composite"
    /\ fireRisk' = FireRiskIndex(lst_norm, ndvi_norm, slope_norm, aspect_south, precip_norm)
    /\ pc' = "export"
    /\ UNCHANGED <<argv, event, longitude, latitude, nearest, started, remaining, slept,
                   dlVars, cloudVars, inputVars>>
    /\ UNCHANGED <<ndvi, lst, precip, slope, aspect,
                   ndvi_norm, lst_norm, slope_norm, aspect_south, precip_norm>>

\* variant: the name built in the order of the function's parameters
ExportCall_LonFirst(k, lon, lat) ==
    ExportTask(ImageOf(LAYERS[k][1]), LayerName(LAYERS[k][2], lon, lat), lon, lat)

\* the k-th export_layer(image, f'{Name}_{latitude}_{longitude}') call
ExportCall(k, lon, lat) ==
    ExportTask(ImageOf(LAYERS[k][1]), LayerName(LAYERS[k][2], lat, lon), lon, lat)

\* variant: range(60, 1, -1)
CountdownLive_StopAtOne(r) == r > 1

\* range(60, 0, -1): its first value, the next value, and whether a value is in it
CountdownFirst == WaitSeconds
CountdownNext(r) == r - 1
CountdownLive(r) == r > 0

\* one export_layer call of run_fire_risk_analysis; after the sixth the function
\* returns and the caller enters its countdown
ExportLayer ==
    /\ pc = "export"
    /\ started < Len(LAYERS)
    /\ tasks' = Append(tasks, ExportCall(started + 1, longitude, latitude))
    /\ started' = started + 1
    /\ IF started' = Len(LAYERS)
       THEN /\ remaining' = CountdownFirst
            /\ pc' = IF CountdownLive(CountdownFirst) THEN "wait" ELSE "auth"
       ELSE UNCHANGED <<remaining, pc>>
    /\ UNCHANGED <<argv, event, longitude, latitude, nearest, slept, dlVars, root, recent>>
    /\ UNCHANGED <<inputVars, imageVars>>

\* one iteration of the countdown: time.sleep(1); when the range is exhausted,
\* download_exports_from_drive() is called
SleepTick ==
    /\ pc = "wait"
    /\ CountdownLive(remaining)
    /\ slept' = slept + 1
    /\ remaining' = CountdownNext(remaining)
    /\ pc' = IF CountdownLive(remaining') THEN "wait" ELSE "auth"
    /\ UNCHANGED <<argv, event, longitude, latitude, nearest, started, dlVars, cloudVars>>
    /\ UNCHANGED <<inputVars, imageVars>>

\* on_map_click's countdown
SleepTickGui == Len(argv) # 2 /\ SleepTick

\* __main__'s countdown
SleepTickCli == Len(argv) = 2 /\ SleepTick

\* GoogleAuth(); LocalWebserverAuth(); GoogleDrive(gauth)
Authenticate ==
    /\ pc = "auth"
    /\ pc' = "findFolder"
    /\ UNCHANGED <<argv, event, longitude, latitude, nearest, started, remaining, slept,
                   dlVars, cloudVars>>
    /\ UNCHANGED <<inputVars, imageVars>>

\* variant: a missing folder is taken for an empty one
FindFolder_NoRaise ==
    /\ pc = "findFolder"
    /\ LET found == ListFolders(root, FolderName)
       IN  IF found = <<>>
           THEN /\ file_list' = <<>>
                /\ pc' = "makedirs"
                /\ UNCHANGED folder_id
           ELSE /\ file_list' = found
                /\ folder_id' = found[1].id
                /\ pc' = "listFolder"
    /\ UNCHANGED <<argv, event, longitude, latitude, nearest, started, remaining, slept,
                   idx, fetched, dirExists, localFiles, cloudVars>>
    /\ UNCHANGED <<inputVars, imageVars>>

\* list the folders of that name; raise if none, else take the first one's id
FindFolder ==
    /\ pc = "findFolder"
    /\ LET found == ListFolders(root, FolderName)
       IN  IF found = <<>>
           THEN /\ pc' = "raised"
                /\ UNCHANGED <<folder_id, file_list>>
           ELSE /\ file_list' = found
                /\ folder_id' = found[1].id
                /\ pc' = "listFolder"
    /\ UNCHANGED <<argv, event, longitude, latitude, nearest, started, remaining, slept,
                   idx, fetched, dirExists, localFiles, cloudVars>>
    /\ UNCHANGED <<inputVars, imageVars>>

\* variant: an empty folder is an error
ListFolder_RaiseIfEmpty ==
    /\ pc = "listFolder"
    /\ file_list' = ListChildren(root, folder_id)
    /\ pc' = IF file_list' = <<>> THEN "raised" ELSE "makedirs"
    /\ UNCHANGED <<argv, event, longitude, latitude, nearest, started, remaining, slept,
                   folder_id, idx, fetched, dirExists, localFiles, cloudVars>>
    /\ UNCHANGED <<inputVars, imageVars>>

\* list the files inside the folder
ListFolder ==
    /\ pc = "listFolder"
    /\ file_list' = ListChildren(root, folder_id)
    /\ pc' = "makedirs"
    /\ UNCHANGED <<argv, event, longitude, latitude, nearest, started, remaining, slept,
                   folder_id, idx, fetched, dirExists, localFiles, cloudVars>>
    /\ UNCHANGED <<inputVars, imageVars>>

\* os.makedirs(download_path, exist_ok=True)
MakeDirs ==
    /\ pc = "makedirs"
    /\ dirExists' = TRUE
    /\ idx' = 1
    /\ pc' = "download"
    /\ UNCHANGED <<argv, event, longitude, latitude, nearest, started, remaining, slept,
                   folder_id, file_list, fetched, localFiles, cloudVars>>
    /\ UNCHANGED <<inputVars, imageVars>>

\* one iteration of the for loop: file.GetContentFile(downloads/title)
DownloadFile ==
    /\ pc = "download"
    /\ idx <= Len(file_list)
    /\ localFiles' = WriteLocal(localFiles, file_list[idx].title, file_list[idx].id)
    /\ fetched' = Append(fetched, file_list[idx].id)
    /\ idx' = idx + 1
    /\ UNCHANGED <<procVars, folder_id, file_list, dirExists, cloudVars>>
    /\ UNCHANGED <<inputVars, imageVars>>

\* the loop is exhausted: print("All files downloaded.") and return
DownloadDone ==
    /\ pc = "download"
    /\ idx > Len(file_list)
    /\ pc' = "done"
    /\ UNCHANGED <<argv, event, longitude, latitude, nearest, started, remaining, slept,
                   dlVars, cloudVars>>
    /\ UNCHANGED <<inputVars, imageVars>>

----------------------------------------------------------------------------
(* The remote services.  Each task runs by itself and ends COMPLETED or     *)
(* FAILED; queued and running are one state here, ACTIVE, as nothing can   *)
(* tell them apart.  A completed export leaves its file in the folder the  *)
(* task names: the most recently modified folder of that name, created     *)
(* when Drive has none.                                                    *)

ExportedFile(i) == [id |-> i, title |-> tasks[i].fileNamePrefix \o ".tif"]

TaskComplete(i) ==
    /\ tasks[i].state = "ACTIVE"
    /\ tasks' = [tasks EXCEPT ![i].state = "COMPLETED"]
    /\ IF MatchingFolders(root, tasks[i].folder) = {}
       THEN /\ root' = Append(root, [id |-> 1001 + Len(root), title |-> tasks[i].folder,
                                     files |-> {ExportedFile(i)}])
            /\ recent' = Len(root) + 1
       ELSE /\ root' = [root EXCEPT ![recent].files = @ \cup {ExportedFile(i)}]
            /\ recent' = recent
    /\ UNCHANGED <<procVars, dlVars>>
    /\ UNCHANGED <<inputVars, imageVars>>

TaskFail(i) ==
    /\ tasks[i].state = "ACTIVE"
    /\ Cardinality({ j \in 1..Len(tasks) : tasks[j].state = "FAILED" }) < MaxFailed
    /\ tasks' = [tasks EXCEPT ![i].state = "FAILED"]
    /\ UNCHANGED <<procVars, dlVars, root, recent>>
    /\ UNCHANGED <<inputVars, imageVars>>

Backend ==
    \/ \E i \in 1..Len(tasks) : TaskComplete(i)
    \/ \E i \in 1..Len(tasks) : TaskFail(i)

Process ==
    \/ MainCli
    \/ MainGui
    \/ OnMapClick
    \/ FetchSignals
    \/ Normalize
    \/ Composite
    \/ ExportLayer
    \/ SleepTickGui
    \/ SleepTickCli
    \/ Authenticate
    \/ FindFolder
    \/ ListFolder
    \/ MakeDirs
    \/ DownloadFile
    \/ DownloadDone

Next == Process \/ Backend

Spec == Init /\ [][Next]_vars

----------------------------------------------------------------------------
(* The map handler alone: one session of the GUI for every click of a grid *)
(* of the canvas and for every click on a province's label, with the       *)
(* remote tasks not finishing during the session                           *)

GridClicks ==
    { [x |-> i * (WIDTH \div GridX), y |-> j * (HEIGHT \div GridY)] :
        i \in 0..GridX, j \in 0..GridY }

LabelClicks ==
    { [x |-> geo_to_pixel(PROVINCES[i][2], PROVINCES[i][3])[1],
       y |-> geo_to_pixel(PROVINCES[i][2], PROVINCES[i][3])[2]] : i \in 1..Len(PROVINCES) }

\* the pixel at the same distance from Qazvin (12) and Alborz (16)
TieClicks == { [x |-> 286, y |-> 160] }

InitClick ==
    /\ argv = <<>>
    /\ event \in GridClicks \cup LabelClicks \cup TieClicks
    /\ InitProcess
    /\ tasks = <<>>
    /\ root = DriveRoot(1, 1)
    /\ recent = 2
    /\ InitLocalDir
    /\ SamplePixel
    /\ InitImages

NextClick ==
    \/ MainGui
    \/ OnMapClick
    \/ FetchSignals
    \/ Normalize
    \/ Composite
    \/ ExportLayer
    \/ SleepTickGui
    \/ Authenticate
    \/ FindFolder
    \/ ListFolder
    \/ MakeDirs
    \/ DownloadFile
    \/ DownloadDone

SpecClick == InitClick /\ [][NextClick]_vars

----------------------------------------------------------------------------
(* run_fire_risk_analysis alone, for every pixel of a set of inputs *)

S2Inputs ==
    {NoBands} \cup ({ [B4 |-> r, B8 |-> n] : r \in 0..MaxBand, n \in 0..MaxBand }
                       \ {[B4 |-> 0, B8 |-> 0]})

\* mean of LST_Day_1km digital numbers: 14032.5 + 625 k, which is 7.5 C + 12.5 C * k
LstInputs ==
    {NoBands} \cup { [LST_Day_1km |-> Rat(28065 + 1250 * k, 2)] : k \in 0..MaxLstStep }

PrecipInputs ==
    {NoBands} \cup { [precipitation |-> RInt(75 * k)] : k \in 0..MaxPrecipStep }

TerrainInputs ==
    { [slope |-> 30 * k, aspect |-> a] : k \in 0..MaxSlopeStep, a \in {0, 90, 120, 180, 300} }

InitRaster ==
    /\ argv \in CliArgs
    /\ event = NoEvent
    /\ InitProcess
    /\ tasks = <<>>
    /\ root = DriveRoot(0, 0)
    /\ recent = 0
    /\ InitLocalDir
    /\ s2_median \in S2Inputs
    /\ lstImage \in LstInputs
    /\ precipImage \in PrecipInputs
    /\ terrain \in TerrainInputs
    /\ InitImages

NextRaster ==
    \/ MainCli
    \/ FetchSignals
    \/ Normalize
    \/ Composite
    \/ ExportLayer

SpecRaster == InitRaster /\ [][NextRaster]_vars

----------------------------------------------------------------------------
(* Properties *)

\* run_fire_risk_analysis has been called and has returned
RunReturned == pc \in {"wait", "auth", "findFolder", "listFolder", "makedirs",
                       "download", "done", "raised"}

\* download_exports_from_drive has been called
Retrieving == pc \in {"auth", "findFolder", "listFolder", "makedirs", "download",
                      "done", "raised"}

LayerNames == <<"NDVI", "LST", "Precip", "Slope", "Aspect_Score", "Fire_Risk">>

Range(q) == { q[i] : i \in 1..Len(q) }

\* C1: a call of run_fire_risk_analysis(longitude, latitude) that has returned has
\* started exactly six export tasks, one per name of NDVI, LST, Precip, Slope,
\* Aspect_Score, Fire_Risk and no name twice; each task's description and file
\* name prefix is Name_latitude_longitude with the arguments as Python prints
\* them, latitude first; each targets the folder EarthEnginefatemeh, the bounds
\* of the 30 km buffer around (longitude, latitude), scale 30 and maxPixels 1e13.
\* While the call runs, the tasks started so far are the first of these.
C1_SixExportsPerRun ==
    /\ Len(tasks) = started
    /\ started <= 6
    /\ RunReturned => started = 6
    /\ LET coords == "_" \o FloatRepr(latitude) \o "_" \o FloatRepr(longitude)
       IN  \A i \in 1..Len(tasks) : tasks[i].description = LayerNames[i] \o coords
    /\ \A i \in 1..Len(tasks) :
          /\ tasks[i].fileNamePrefix = tasks[i].description
          /\ tasks[i].folder = "EarthEnginefatemeh"
          /\ tasks[i].region =
                [op |-> "bounds",
                 of |-> [op |-> "buffer", point |-> <<longitude, latitude>>, distance |-> 30000]]
          /\ tasks[i].scale = 30
          /\ tasks[i].maxPixels = [mantissa |-> 1, exponent |-> 13]
    /\ \A i, j \in 1..Len(tasks) : i # j => tasks[i].description # tasks[j].description
    /\ (Len(tasks) = 6 /\ argv = <<525000, 362500>>) =>
          /\ longitude = 525000 /\ latitude = 362500
          /\ tasks[1].description = "NDVI_36.25_52.5"
          /\ tasks[5].description = "Aspect_Score_36.25_52.5"
    /\ (Len(tasks) = 6 /\ argv = <<>> /\ nearest = 1) =>
          tasks[6].description = "Fire_Risk_35.6892_51.389"

C1_Witness ==
    /\ pc = "done"
    /\ argv = <<525000, 362500>>
    /\ Len(tasks) = 6
    /\ tasks[6].description = "Fire_Risk_36.25_52.5"

\* C2: download_exports_from_drive is called only after all six export tasks
\* of the run have been started and after 60 one-second sleeps; the countdown
\* starts only after the sixth task, counts 60, 59, ..., 1 with one sleep per
\* value, never stops early or with a value left, and makes exactly 60 sleeps.
C2_RetrievalAfterExportsAndWait ==
    /\ slept <= 60
    /\ Retrieving => (Len(tasks) = 6 /\ started = 6 /\ slept = 60 /\ remaining = 0)
    /\ pc = "wait" => (Len(tasks) = 6 /\ started = 6 /\ remaining >= 1
                         /\ slept + remaining = 60)
    /\ ~RunReturned => slept = 0

C2_Witness == pc = "auth" /\ slept = 60 /\ Len(tasks) = 6

FirstExportFolder ==
    LET hits == MatchingFolders(root, "EarthEnginefatemeh")
    IN  CHOOSE i \in hits : \A j \in hits : i <= j

\* C3: when a folder named EarthEnginefatemeh exists, the folder whose content
\* is listed is the first one of that name; the listing holds every file that
\* folder held when it was listed, those of earlier runs included (whatever
\* their age or coordinates), each once; every listed item is fetched exactly
\* once, in order, into downloads/ under its own title, a local file of that
\* title being overwritten (it then holds the last listed item of that title);
\* and no step of the process changes Drive: Drive changes only when a task
\* completes.
C3_EveryListedItemOnce ==
    /\ [](pc \in {"makedirs", "download", "done"} =>
            /\ folder_id = root[FirstExportFolder].id
            /\ \A f \in root[FirstExportFolder].files : f.id < 0 => f \in Range(file_list)
            /\ \A f \in Range(file_list) : f \in root[FirstExportFolder].files
            /\ \A i, j \in 1..Len(file_list) : i # j => file_list[i].id # file_list[j].id)
    /\ [](pc = "download" =>
            /\ idx \in 1..(Len(file_list) + 1)
            /\ fetched = [i \in 1..(idx - 1) |-> file_list[i].id])
    /\ [](pc = "done" =>
            /\ dirExists
            /\ fetched = [i \in 1..Len(file_list) |-> file_list[i].id]
            /\ \A i \in 1..Len(file_list) :
                  LET last == CHOOSE j \in i..Len(file_list) :
                                /\ file_list[j].title = file_list[i].title
                                /\ \A k \in (j + 1)..Len(file_list) :
                                      file_list[k].title # file_list[i].title
                  IN  [title |-> file_list[i].title, content |-> file_list[last].id]
                         \in localFiles)
    /\ [][pc = "listFolder" /\ pc' = "makedirs" =>
            Range(file_list') = root[FirstExportFolder].files]_vars
    /\ [][tasks' = tasks => root' = root]_vars

C3_Witness ==
    /\ pc = "done"
    /\ Len(file_list) = 3
    /\ fetched = <<-1, 1, 6>>
    /\ [title |-> "NDVI_35.6892_51.389.tif", content |-> 1] \in localFiles
    /\ [title |-> "Fire_Risk_35.6892_51.389.tif", content |-> 6] \in localFiles

\* C4: if Drive lists no folder named EarthEnginefatemeh when it is looked up,
\* download_exports_from_drive raises: the step leaves the listing, the folder
\* id, the fetched items, the downloads directory and its files as they were
\* (nothing listed, nothing fetched, no directory created), nothing of the
\* retrieval is done afterwards (no retry), and the run never reaches the
\* success state.
C4_MissingFolderRaises ==
    /\ [](pc = "raised" => (file_list = <<>> /\ folder_id = 0 /\ fetched = <<>> /\ idx = 0))
    /\ [][(pc = "findFolder" /\ pc' # pc /\ MatchingFolders(root, "EarthEnginefatemeh") = {})
             => (pc' = "raised" /\ UNCHANGED dlVars)]_vars
    /\ [][pc' = "raised" =>
             (pc = "raised"
                \/ (pc = "findFolder" /\ MatchingFolders(root, "EarthEnginefatemeh") = {}))]_vars
    /\ [][pc = "raised" => (pc' = "raised" /\ UNCHANGED <<procVars, dlVars>>)]_vars

C4_Witness ==
    /\ pc = "raised"
    /\ ~dirExists
    /\ localFiles = {}
    /\ MatchingFolders(root, "EarthEnginefatemeh") = {}

NotCompleted == { i \in 1..Len(tasks) : tasks[i].state # "COMPLETED" }

\* the files in downloads/ that tasks of this run exported
RunFilesLocal == { f \in localFiles : f.content >= 1 }

\* C9 as stated: whenever retrieval has started while some of the run's tasks
\* are not completed, it ends in the success state without an error.
C9_AsStated == ~(pc = "raised" /\ NotCompleted # {})

\* C9 amended: retrieval does not look at the tasks.  Once a folder named
\* EarthEnginefatemeh has been found, retrieval raises no error, whatever the
\* tasks' states, and it raises only when no such folder is found; a file of
\* this run is in downloads/ only if its task has completed, so that with a
\* task still active or failed at the end of a successful retrieval fewer than
\* six of the run's files are there; a failed task stays failed, and no task
\* is started beyond the six, each name once.
C9_RetrievalIgnoresTasks ==
    /\ [](\A f \in RunFilesLocal : tasks[f.content].state = "COMPLETED")
    /\ []((pc = "done" /\ NotCompleted # {}) => Cardinality(RunFilesLocal) < 6)
    /\ [](\A i, j \in 1..Len(tasks) : i # j => tasks[i].description # tasks[j].description)
    /\ [][(pc \in {"listFolder", "makedirs", "download"}) =>
             (pc' \in {"listFolder", "makedirs", "download", "done"})]_vars
    /\ [][(pc # "raised" /\ pc' = "raised") =>
             (MatchingFolders(root, "EarthEnginefatemeh") = {})]_vars
    /\ [][\A i \in 1..Len(tasks) :
             tasks[i].state = "FAILED" =>
                (Len(tasks') >= i /\ tasks'[i] = tasks[i])]_vars
    /\ [][Len(tasks') > Len(tasks) => pc = "export"]_vars

C9_Witness ==
    /\ pc = "done"
    /\ \E i \in 1..Len(tasks) : tasks[i].state = "ACTIVE"
    /\ \E i \in 1..Len(tasks) : tasks[i].state = "FAILED"
    /\ \E i \in 1..Len(tasks) : tasks[i].state = "COMPLETED"
    /\ Cardinality(RunFilesLocal) < 6
    /\ \E f \in localFiles : f.content < 0

\* the clicked point as pixel_to_geo gives it, in units of 1/20000 degree:
\* lat = 39 - 14 y / 1000, lon = 44 + 19 x / 800
ClickedPoint == <<780000 - 280 * event.y, 880000 + 475 * event.x>>

\* C10: once on_map_click has handled a click, a province of the table is
\* selected (never none); no province's centroid is nearer (Euclidean distance
\* in degrees) to the clicked point than the selected one's, and every entry
\* earlier in the table is strictly farther, so that of equally near ones the
\* earliest is taken; the analysis runs with the selected centroid's
\* (longitude, latitude), which every export's region is built on.
C10_NearestProvince ==
    (pc \notin {"main", "mainloop"}) =>
        /\ nearest \in 1..30
        /\ \A j \in 1..30 : ~Less(Dist2(ClickedPoint, j), Dist2(ClickedPoint, nearest))
        /\ \A j \in 1..(nearest - 1) : Less(Dist2(ClickedPoint, nearest), Dist2(ClickedPoint, j))
        /\ longitude = PROVINCES[nearest][3]
        /\ latitude = PROVINCES[nearest][2]
        /\ pc # "returned"
        /\ \A i \in 1..Len(tasks) :
              tasks[i].region.of.point = <<PROVINCES[nearest][3], PROVINCES[nearest][2]>>
        /\ event = [x |-> 400, y |-> 800] => PROVINCES[nearest][1] = "Fars"
        /\ event = [x |-> 311, y |-> 236] => PROVINCES[nearest][1] = "Tehran"
        /\ event = [x |-> 286, y |-> 160] => PROVINCES[nearest][1] = "Qazvin"

C10_Witness ==
    /\ pc = "done"
    /\ event = [x |-> 286, y |-> 160]
    /\ nearest = 12
    /\ Dist2(ClickedPoint, 12) = Dist2(ClickedPoint, 16)
    /\ longitude = 500000
    /\ latitude = 362700
    /\ Len(tasks) = 6

\* the run has fetched its signals
Fetched == pc \notin {"main", "mainloop", "fetch"}

\* C5: after the fetch, a source whose reduction has no band gives the constant
\* default under the signal's name (NDVI 0, LST 25 unconverted, Precip 10); a
\* source with bands gives (B8 - B4) / (B8 + B4), the mean * 0.02 - 273.15, the
\* precipitation sum; and whichever sources are empty, the run that has
\* returned has exported six images, one band each, named NDVI, LST, Precip,
\* Slope, Aspect_Score, Fire_Risk.
C5_DefaultsForEmptySources ==
    /\ Fetched =>
          /\ ndvi.band = "NDVI" /\ lst.band = "LST" /\ precip.band = "Precip"
          /\ IF DOMAIN s2_median = {}
             THEN ndvi.value = <<0, 1>>
             ELSE ndvi.value[1] * (s2_median.B8 + s2_median.B4)
                     = ndvi.value[2] * (s2_median.B8 - s2_median.B4)
          /\ IF DOMAIN lstImage = {}
             THEN lst.value = <<25, 1>>
             ELSE 100 * lst.value[1] * lstImage.LST_Day_1km[2]
                     = lst.value[2] * (2 * lstImage.LST_Day_1km[1]
                                         - 27315 * lstImage.LST_Day_1km[2])
          /\ IF DOMAIN precipImage = {}
             THEN precip.value = <<10, 1>>
             ELSE precip.value = precipImage.precipitation
    /\ pc = "wait" =>
          /\ Len(tasks) = 6
          /\ \A i \in 1..6 : tasks[i].image.band = LayerNames[i]
          /\ tasks[1].image = ndvi /\ tasks[2].image = lst /\ tasks[3].image = precip

C5_Witness ==
    /\ pc = "wait"
    /\ DOMAIN s2_median = {} /\ DOMAIN lstImage = {} /\ DOMAIN precipImage = {}
    /\ tasks[1].image = [band |-> "NDVI", value |-> <<0, 1>>]
    /\ tasks[2].image = [band |-> "LST", value |-> <<25, 1>>]
    /\ tasks[3].image = [band |-> "Precip", value |-> <<10, 1>>]
    /\ tasks[6].image.band = "Fire_Risk"

\* v (a rational <<n, d>>, d > 0) normalized over low..high is out
UnitScaled(v, low, high, out) ==
    /\ 0 <= out[1] /\ out[1] <= out[2]
    /\ v[1] >= high * v[2] => out = <<1, 1>>
    /\ v[1] <= low * v[2] => out = <<0, 1>>
    /\ (low * v[2] < v[1] /\ v[1] < high * v[2]) =>
          out[1] * (high - low) * v[2] = out[2] * (v[1] - low * v[2])

\* C6: after normalization each of NDVI (0..1), LST (20..45), Slope (0..60),
\* Precip (0..150) is in [0, 1]: 1 for a value at or above the maximum, 0 for
\* a value at or below the minimum, (v - min) / (max - min) in between.
C6_NormalizedInUnitRange ==
    (pc \notin {"main", "mainloop", "fetch", "normalize"}) =>
        /\ UnitScaled(ndvi.value, 0, 1, ndvi_norm.value)
        /\ UnitScaled(lst.value, 20, 45, lst_norm.value)
        /\ UnitScaled(slope.value, 0, 60, slope_norm.value)
        /\ UnitScaled(precip.value, 0, 150, precip_norm.value)

C6_Witness ==
    /\ pc = "wait"
    /\ lst.value = <<115, 2>> /\ lst_norm.value = <<1, 1>>
    /\ ndvi.value = <<-1, 3>> /\ ndvi_norm.value = <<0, 1>>
    /\ slope.value = <<30, 1>> /\ slope_norm.value = <<1, 2>>
    /\ precip.value = <<225, 1>> /\ precip_norm.value = <<1, 1>>

\* 100 * (0.30 l - 0.30 n + 0.15 s + 0.15 a - 0.10 p) over the common
\* denominator of the five rationals, as <<numerator, denominator>>
WeightedSum100(l, n, s, a, p) ==
    << 30 * l[1] * n[2] * s[2] * a[2] * p[2]
         - 30 * n[1] * l[2] * s[2] * a[2] * p[2]
         + 15 * s[1] * l[2] * n[2] * a[2] * p[2]
         + 15 * a[1] * l[2] * n[2] * s[2] * p[2]
         - 10 * p[1] * l[2] * n[2] * s[2] * a[2],
       l[2] * n[2] * s[2] * a[2] * p[2] >>

\* C7: after the composite, Fire_Risk is 0.30 LST_norm - 0.30 NDVI_norm
\* + 0.15 Slope_norm + 0.15 AspectSouth - 0.10 Precip_norm of the normalized
\* rasters, unclamped (0.30 for LST_norm = 1 and the others 0); normalizing
\* and compositing leave the fetched rasters as they were and compositing
\* leaves the normalized ones, so the NDVI, LST, Precip, Slope rasters that are
\* exported are the fetched, not normalized, ones.
C7_LiteralWeightedSum ==
    /\ []((pc \in {"export", "wait"}) =>
            LET w == WeightedSum100(lst_norm.value, ndvi_norm.value, slope_norm.value,
                                    aspect_south.value, precip_norm.value)
            IN  /\ fireRisk.band = "Fire_Risk"
                /\ 100 * fireRisk.value[1] * w[2] = fireRisk.value[2] * w[1]
                /\ (/\ lst_norm.value = <<1, 1>> /\ ndvi_norm.value = <<0, 1>>
                    /\ slope_norm.value = <<0, 1>> /\ aspect_south.value = <<0, 1>>
                    /\ precip_norm.value = <<0, 1>>) => fireRisk.value = <<3, 10>>)
    /\ [](pc = "wait" =>
            /\ tasks[1].image = ndvi /\ tasks[2].image = lst
            /\ tasks[3].image = precip /\ tasks[4].image = slope
            /\ tasks[4].image.value = <<terrain.slope, 1>>
            /\ tasks[5].image = aspect_south /\ tasks[6].image = fireRisk)
    /\ [][(pc \in {"normalize", "composite", "export"}) =>
             UNCHANGED <<ndvi, lst, precip, slope, aspect>>]_vars
    /\ [][(pc \in {"composite", "export"}) =>
             UNCHANGED <<ndvi_norm, lst_norm, slope_norm, aspect_south, precip_norm>>]_vars

C7_Witness ==
    /\ pc = "wait"
    /\ lst_norm.value = <<1, 1>> /\ ndvi_norm.value = <<0, 1>>
    /\ slope_norm.value = <<0, 1>> /\ aspect_south.value = <<0, 1>>
    /\ precip_norm.value = <<0, 1>>
    /\ fireRisk.value = <<3, 10>>
    /\ tasks[2].image.value = <<115, 2>>
    /\ tasks[6].image.value = <<3, 10>>

\* the composite has been computed from the greatest or from the least inputs:
\* a sum of weighted terms is greatest and least where each term is
Extreme ==
    /\ pc \in {"export", "wait"}
    /\ \/ /\ lst_norm.value = <<1, 1>> /\ ndvi_norm.value = <<0, 1>>
          /\ slope_norm.value = <<1, 1>> /\ aspect_south.value = <<1, 1>>
          /\ precip_norm.value = <<0, 1>>
       \/ /\ lst_norm.value = <<0, 1>> /\ ndvi_norm.value = <<1, 1>>
          /\ slope_norm.value = <<0, 1>> /\ aspect_south.value = <<-1, 1>>
          /\ precip_norm.value = <<1, 1>>

\* C8 as stated: some LST_norm, NDVI_norm, Slope_norm, Precip_norm in [0, 1]
\* and aspect score in [-1, 1] give a weighted sum above 1 or below -1; if any
\* do, the extreme ones do.
C8_AsStated ==
    Extreme => (fireRisk.value[1] > fireRisk.value[2]
                  \/ fireRisk.value[1] < 0 - fireRisk.value[2])

\* C8 amended: the composite of every run, whose LST_norm, NDVI_norm,
\* Slope_norm, Precip_norm are in [0, 1] and whose aspect score is in [-1, 1],
\* is never outside [-0.55, 0.60], hence never outside [-1, 1].  It does leave
\* [0, 1]: it is -0.55 for LST_norm 0, NDVI_norm 1, Slope_norm 0, aspect score
\* -1, Precip_norm 1, and 0.60 for the opposite inputs.
C8_CompositeWithinBounds ==
    (pc \in {"export", "wait"}) =>
        /\ \A v \in {lst_norm.value, ndvi_norm.value, slope_norm.value, precip_norm.value} :
              0 <= v[1] /\ v[1] <= v[2]
        /\ 0 - aspect_south.value[2] <= aspect_south.value[1]
        /\ aspect_south.value[1] <= aspect_south.value[2]
        /\ -11 * fireRisk.value[2] <= 20 * fireRisk.value[1]
        /\ 5 * fireRisk.value[1] <= 3 * fireRisk.value[2]
        /\ Extreme => fireRisk.value \in {<<3, 5>>, <<-11, 20>>}

C8_Witness ==
    /\ pc = "wait"
    /\ lst_norm.value = <<0, 1>> /\ ndvi_norm.value = <<1, 1>>
    /\ slope_norm.value = <<0, 1>> /\ aspect_south.value = <<-1, 1>>
    /\ precip_norm.value = <<1, 1>>
    /\ fireRisk.value = <<-11, 20>>
    /\ tasks[6].image.value = <<-11, 20>>

====
